---------------------------- MODULE Spec2Model ----------------------------
(***************************************************************************)
(* Autostart Manager (src/AutoLoad.py): the batch list, its persisted      *)
(* file, the map of processes launched by the session, the import of a     *)
(* settings bundle, and the autostart entries of the Run key and of the    *)
(* task scheduler.                                                         *)
(*                                                                         *)
(* A path is a sequence of one-character strings, so that the extension    *)
(* test, the lower-casing and the basename are computed as the code        *)
(* computes them.  A table row is a record [path, status].                 *)
(***************************************************************************)
EXTENDS Integers, Sequences, FiniteSets, TLC

(***************************************************************************)
(* Bounds of the model.                                                    *)
(***************************************************************************)
\* most rows the batch table may hold
MaxRows == 2
\* most rows of the tables a drag-reorder is applied to
MaxReorderRows == 3

(***************************************************************************)
(* The universe of paths.                                                  *)
(***************************************************************************)
a_exe == <<"a", ".", "e", "x", "e">>
B_BAT == <<"B", ".", "B", "A", "T">>
n_txt == <<"n", ".", "t", "x", "t">>
q_cmd == <<"q", "&", ".", "c", "m", "d">>
c_cmd == <<"d", "\\", "c", ".", "c", "m", "d">>
e_exe == <<"d", "/", "e", ".", "e", "x", "e">>

\* the paths of dropped files and of imported bundles
Paths == {a_exe, B_BAT, n_txt}

\* the paths the file dialog of add_batch_file may return
DialogPaths == Paths \cup {q_cmd}

\* the paths of the tables a drag-reorder is applied to
ReorderPaths == {a_exe, B_BAT, c_cmd, e_exe}

AllPaths == DialogPaths \cup ReorderPaths

\* the paths whose file may disappear from the disk and come back
Volatile == {B_BAT}

(***************************************************************************)
(* String helpers: str.lower, str.endswith, os.path.basename.              *)
(***************************************************************************)
UpperToLower ==
    "A" :> "a" @@ "B" :> "b" @@ "C" :> "c" @@ "D" :> "d" @@ "E" :> "e" @@
    "M" :> "m" @@ "N" :> "n" @@ "Q" :> "q" @@ "T" :> "t" @@ "X" :> "x"

LowerChar(c) == IF c \in DOMAIN UpperToLower THEN UpperToLower[c] ELSE c

lower(s) == [k \in 1..Len(s) |-> LowerChar(s[k])]

endswith(s, suffix) ==
    /\ Len(s) >= Len(suffix)
    /\ SubSeq(s, Len(s) - Len(suffix) + 1, Len(s)) = suffix

ApprovedExtensions ==
    { <<".", "e", "x", "e">>, <<".", "b", "a", "t">>, <<".", "c", "m", "d">> }

ForbiddenChars == {"<", ">", "|", "&"}

Separators == {"\\", "/"}

\* os.path.basename: what follows the last separator
basename(p) ==
    LET seps == {k \in 1..Len(p) : p[k] \in Separators}
        cut  == IF seps = {} THEN 0
                ELSE CHOOSE k \in seps : \A m \in seps : m <= k
    IN  SubSeq(p, cut + 1, Len(p))

(***************************************************************************)
(* State.                                                                  *)
(***************************************************************************)
VARIABLES
    alive,            \* the application is running
    disk,             \* the paths that exist on disk
    batch_table,      \* the rows of the batch table, in display order
    processes,        \* self.processes: path -> process name
    batch_list_file,  \* the content of batch_list.json
    current_theme,    \* self.current_theme
    config_file,      \* the content of config.json
    launched,         \* paths launched with success this session and not stopped since
    registry,         \* the values of the Run key: name -> command
    scheduler,        \* the scheduled tasks: task name -> command
    process_table,    \* the rows of the table of autostart entries
    last              \* the last operation and what it was seen to do

vars == <<alive, disk, batch_table, processes, batch_list_file,
          current_theme, config_file, launched, registry, scheduler,
          process_table, last>>

\* DragDropLineEdit.is_valid_file
is_valid_file(file_path, onDisk) ==
    /\ file_path \in onDisk
    /\ \E ext \in ApprovedExtensions : endswith(lower(file_path), ext)
    /\ ~ \E k \in 1..Len(file_path) : file_path[k] \in ForbiddenChars

Row(p, s) == [path |-> p, status |-> s]

\* column 0 of the table
PathsOf(table) == [k \in 1..Len(table) |-> table[k].path]

NoProcesses == [p \in {} |-> <<>>]

(***************************************************************************)
(* The persisted files.  A file is missing, holds a JSON array of paths,   *)
(* or holds a truncated text: every proper prefix of the serialisation of  *)
(* an array, the empty text included, is malformed JSON.  A file written   *)
(* by another program may also hold an array with items that are not       *)
(* strings, or a JSON value that is not an array.                          *)
(***************************************************************************)
MissingFile == [kind |-> "missing", items |-> <<>>]
ArrayFile(items) == [kind |-> "array", items |-> items]
TruncatedFile == [kind |-> "truncated", items |-> <<>>]

\* a JSON number, true, false or null: json.load returns a value that cannot
\* be iterated
ScalarFile == [kind |-> "scalar", items |-> <<>>]

\* a JSON object: json.load returns a dict, whose iteration yields its keys
ObjectFile(keys) == [kind |-> "object", items |-> keys]

\* a JSON string: json.load returns a str, whose iteration yields its
\* characters
StringFile(text) == [kind |-> "string", items |-> [k \in 1..Len(text) |-> <<text[k]>>]]

\* the items of a JSON array that are not strings: null and a number
json_null == <<"null">>
json_number == <<"number">>

\* DragDropLineEdit().is_valid_file(item) for an item read by json.load.
\* os.path.exists(None) raises TypeError.  os.path.exists of an integer tests
\* the file descriptor of that number: when it is open, item.lower() raises
\* AttributeError, and when it is not, the item is not valid.
is_valid_item(item, onDisk, fdOpen) ==
    CASE item = json_null   -> "raises"
      [] item = json_number -> IF fdOpen THEN "raises" ELSE "invalid"
      [] OTHER              -> IF is_valid_file(item, onDisk) THEN "valid" ELSE "invalid"

\* how a write of a file may end: the whole content is written; open() raises
\* and the file is left as it was; open() has truncated the file and the write
\* raises; open() has truncated the file and the process dies.
WriteOutcomes == {"ok", "open_fails", "write_fails", "crash"}

\* AutostartManager.save_batch_list: the file it leaves
save_batch_list(table, file, outcome) ==
    CASE outcome = "ok"          -> ArrayFile(PathsOf(table))
      [] outcome = "open_fails"  -> file
      [] OTHER                   -> TruncatedFile

\* AutostartManager.save_theme: the file it leaves
save_theme(theme, file, outcome) ==
    CASE outcome = "ok"          -> theme
      [] outcome = "open_fails"  -> file
      [] OTHER                   -> "truncated"

\* AutostartManager.load_theme
load_theme(file) ==
    IF file \in {"missing", "truncated"} THEN "light" ELSE file

RECURSIVE LoadRows(_, _, _, _, _)
\* the loop of load_batch_list over the items of the file: the table it
\* leaves and whether it raised
LoadRows(items, table, procs, onDisk, fdOpen) ==
    IF items = <<>> THEN [table |-> table, error |-> FALSE]
    ELSE LET item   == Head(items)
             status == IF item \in DOMAIN procs THEN "Running" ELSE "Stopped"
             valid  == is_valid_item(item, onDisk, fdOpen)
         IN  IF valid = "raises" THEN [table |-> table, error |-> TRUE]
             ELSE LoadRows(Tail(items),
                           IF valid = "valid" THEN Append(table, Row(item, status))
                           ELSE table,
                           procs, onDisk, fdOpen)

\* AutostartManager.load_batch_list: the table it leaves and whether it
\* reported an error.  json.load raises before the table is touched; the table
\* is emptied before the loop begins.
load_batch_list(table, file, procs, onDisk, fdOpen) ==
    CASE file.kind = "missing"   -> [table |-> table, error |-> FALSE]
      [] file.kind = "truncated" -> [table |-> table, error |-> TRUE]
      [] file.kind = "scalar"    -> [table |-> <<>>, error |-> TRUE]
      [] OTHER                   -> LoadRows(file.items, <<>>, procs, onDisk, fdOpen)

(***************************************************************************)
(* The autostart stores.  The Run key of the registry and the task         *)
(* scheduler are functions from a name to a command; names and commands    *)
(* are sequences of one-character strings, as paths are.                   *)
(***************************************************************************)
Quote == "\""

\* f'"{file_path}"'
quoted(file_path) == <<Quote>> \o file_path \o <<Quote>>

startswith(s, prefix) ==
    /\ Len(s) >= Len(prefix)
    /\ SubSeq(s, 1, Len(prefix)) = prefix

\* sub in s
contains(s, sub) ==
    \E k \in 1..(Len(s) - Len(sub) + 1) : SubSeq(s, k, k + Len(sub) - 1) = sub

RECURSIVE strip(_, _)
\* str.strip(ch)
strip(s, ch) ==
    IF s = <<>> THEN s
    ELSE IF Head(s) = ch THEN strip(Tail(s), ch)
    ELSE IF s[Len(s)] = ch THEN strip(SubSeq(s, 1, Len(s) - 1), ch)
    ELSE s

\* "Autostart_"
TaskPrefix == <<"A", "u", "t", "o", "s", "t", "a", "r", "t", "_">>

\* "AutostartManager", the name of the application's own entry
SelfName ==
    <<"A", "u", "t", "o", "s", "t", "a", "r", "t", "M", "a", "n", "a", "g", "e", "r">>

\* sys.executable or __file__: the path of the running application
current_exe == <<"m", ".", "e", "x", "e">>

\* f"Autostart_{app_name}_{uuid.uuid4().hex[:8]}", token standing for the
\* eight hexadecimal digits
TaskName(app_name, token) == TaskPrefix \o app_name \o <<"_">> \o token

\* a store without entries
NoEntries == [n \in {} |-> <<>>]

\* the name of the computer, the first column of the verbose task listing
HostName == <<"P", "C">>

\* one line of the output of schtasks /Query /FO CSV /V, split at '","'.  The
\* columns of the verbose listing are HostName, TaskName, Next Run Time,
\* Status, Logon Mode, Last Run Time, Last Result, Author, Task To Run, ...;
\* the task name is shown with the backslash of its folder.
QueryLine(task_name, command) ==
    << <<Quote>> \o HostName, <<"\\">> \o task_name, <<>>, <<>>, <<>>, <<>>,
       <<>>, <<>>, command, <<Quote>> >>

\* the rows load_autostart_processes makes of the lines of the task listing
SchedulerRows(sched) ==
    LET lines == {QueryLine(t, sched[t]) : t \in DOMAIN sched}
        shown == {parts \in lines :
                     /\ \E k \in 1..Len(parts) : contains(parts[k], TaskPrefix)
                     /\ Len(parts) > 8
                     /\ startswith(strip(parts[1], Quote), TaskPrefix)}
    IN  {[source |-> "Scheduler", name |-> strip(parts[1], Quote),
          path |-> strip(parts[9], Quote)] : parts \in shown}

\* the rows load_autostart_processes makes of the values of the Run key
RegistryRows(reg) ==
    {[source |-> "Registry", name |-> n, path |-> reg[n]] : n \in DOMAIN reg}

\* AutostartManager.load_autostart_processes: the rows of the process table.
\* The order of the rows is that of the two stores and is left out.
load_autostart_processes(reg, sched) == RegistryRows(reg) \cup SchedulerRows(sched)

\* the record of the last operation: op, its name; from_row and to_row, the
\* rows of a drag-reorder; wrote, that save_batch_list was called; outcome, how
\* its last write ended; saved and before, when the process died in the write,
\* the list being written and the file as the handler found it; dup, that the
\* path handed to add_batch_file was in the table already;
\* attempts, failed and absent, the paths start_all_batch handed to Popen, the
\* rows for which Popen raised and the rows whose path was not on disk;
\* tracked, requests and kills, the paths stop_all_batch found in the map, those
\* it ran taskkill for, and how the taskkill runs ended; error, that the
\* handler reported an error of its own; arg, what the handler was given.
Op(name) ==
    [op |-> name, from_row |-> -1, to_row |-> -1, wrote |-> FALSE,
     saved |-> <<>>, outcome |-> "none",
     dup |-> FALSE, before |-> MissingFile,
     attempts |-> <<>>, failed |-> {}, absent |-> {},
     tracked |-> {}, requests |-> {}, kills |-> {},
     error |-> FALSE, arg |-> <<>>]

(***************************************************************************)
(* Construction.                                                           *)
(***************************************************************************)
Init ==
    /\ alive = TRUE
    /\ disk = AllPaths
    /\ batch_table = <<>>
    /\ processes = NoProcesses
    /\ batch_list_file = MissingFile
    /\ current_theme = "light"
    /\ config_file = "missing"
    /\ launched = {}
    /\ registry = NoEntries
    /\ scheduler = NoEntries
    /\ process_table = {}
    /\ last = Op("init")

\* AutostartManager.__init__ of a new session
Start ==
    /\ ~alive
    /\ alive' = TRUE
    /\ processes' = NoProcesses
    /\ launched' = {}
    /\ current_theme' = load_theme(config_file)
    /\ \E fdOpen \in BOOLEAN :
          LET r == load_batch_list(<<>>, batch_list_file, NoProcesses, disk, fdOpen)
          IN  /\ batch_table' = r.table
              /\ last' = [Op("Start") EXCEPT !.error = r.error]
    /\ process_table' = load_autostart_processes(registry, scheduler)
    /\ UNCHANGED <<disk, batch_list_file, config_file, registry, scheduler>>

\* what is left of a session whose process has ended: its memory is gone
Ended ==
    /\ alive' = FALSE
    /\ batch_table' = <<>>
    /\ processes' = NoProcesses
    /\ launched' = {}
    /\ current_theme' = "light"
    /\ process_table' = {}

\* the window is closed, or the process dies between two operations
Exit ==
    /\ alive
    /\ Ended
    /\ last' = Op("Exit")
    /\ UNCHANGED <<disk, batch_list_file, config_file, registry, scheduler>>

\* the files batch_list.json may hold after another program, or the user in
\* an editor, has written it
EditedFiles ==
    {MissingFile, TruncatedFile, ScalarFile, ObjectFile(<<a_exe>>), StringFile(a_exe),
     ArrayFile(<<a_exe, json_null>>), ArrayFile(<<a_exe, json_number>>),
     ArrayFile(<<a_exe, n_txt>>)}

\* batch_list.json is written by another program while the application is
\* not running
FileEdited ==
    /\ ~alive
    /\ batch_list_file' \in EditedFiles
    /\ last' = Op("FileEdited")
    /\ UNCHANGED <<alive, disk, batch_table, processes, current_theme, config_file,
                   launched, registry, scheduler, process_table>>

\* a file of the disk is deleted or restored by another program
DiskChange ==
    /\ \E p \in Volatile :
          disk' = IF p \in disk THEN disk \ {p} ELSE disk \cup {p}
    /\ UNCHANGED <<alive, batch_table, processes, batch_list_file,
                   current_theme, config_file, launched, registry, scheduler,
                   process_table, last>>

(***************************************************************************)
(* Batch-list mutations.  Rows are numbered from 0, as in the code.        *)
(***************************************************************************)
\* QTableWidget.removeRow
removeRow(table, row) ==
    SubSeq(table, 1, row) \o SubSeq(table, row + 2, Len(table))

\* QTableWidget.insertRow followed by setItem of both columns
insertRow(table, row, item) ==
    SubSeq(table, 1, row) \o <<item>> \o SubSeq(table, row + 1, Len(table))

\* a handler that has changed the table to newTable and ends with
\* save_batch_list; the process may die in the write
SaveAndReturn(name, newTable, outcome, seen) ==
    /\ batch_list_file' = save_batch_list(newTable, batch_list_file, outcome)
    /\ last' = [seen EXCEPT !.op = name, !.wrote = TRUE, !.outcome = outcome,
                            !.saved = IF outcome = "crash" THEN PathsOf(newTable) ELSE <<>>,
                            !.before = IF outcome = "crash" THEN batch_list_file
                                       ELSE MissingFile]
    /\ IF outcome = "crash"
       THEN Ended
       ELSE /\ batch_table' = newTable
            /\ UNCHANGED <<alive, processes, launched, current_theme, process_table>>
    /\ UNCHANGED <<disk, config_file, registry, scheduler>>

\* a handler that returns without changing anything
ReturnUnchanged(name, seen) ==
    /\ last' = [seen EXCEPT !.op = name]
    /\ UNCHANGED <<alive, disk, batch_table, processes, batch_list_file,
                   current_theme, config_file, launched, registry, scheduler,
                   process_table>>

\* the duplicate test of add_batch_file and of the file drop
IsDuplicate(table, file_path) == \E row \in 1..Len(table) : table[row].path = file_path

\* AutostartManager.add_batch_file
add_batch_file(file_path, outcome) ==
    /\ alive
    /\ IF is_valid_file(file_path, disk) /\ ~IsDuplicate(batch_table, file_path)
       THEN /\ Len(batch_table) < MaxRows
            /\ SaveAndReturn("AddFile",
                             insertRow(batch_table, Len(batch_table), Row(file_path, "Stopped")),
                             outcome, Op("AddFile"))
       ELSE /\ outcome = "ok"
            /\ ReturnUnchanged("AddFile",
                               [Op("AddFile") EXCEPT
                                   !.dup = IsDuplicate(batch_table, file_path)])

\* AutostartManager.remove_batch_file; the table is in single-selection mode,
\* selected = -1 when no row is selected
remove_batch_file(selected, outcome) ==
    /\ alive
    /\ IF selected = -1
       THEN /\ outcome = "ok"
            /\ ReturnUnchanged("RemoveSelected", Op("RemoveSelected"))
       ELSE /\ selected \in 0..(Len(batch_table) - 1)
            /\ SaveAndReturn("RemoveSelected", removeRow(batch_table, selected), outcome,
                             Op("RemoveSelected"))

\* AutostartManager.remove_all_batch_files, the question answered Yes
remove_all_batch_files(outcome) ==
    /\ alive
    /\ SaveAndReturn("RemoveAll", <<>>, outcome, Op("RemoveAll"))

\* the test that rejects the move, without its second case
IsNoopMoveSameRowOnly(from_row, to_row) == from_row = to_row

\* DragDropTableWidget.dropEvent, a row dragged: the test that rejects the move
IsNoopMove(from_row, to_row) == from_row = to_row \/ from_row + 1 = to_row

\* the move without the shift of to_row that the removed row calls for
MoveRowNoShift(table, from_row, to_row) ==
    LET item == table[from_row + 1]
        rest == removeRow(table, from_row)
        dest == IF to_row > Len(rest) THEN Len(rest) ELSE to_row
    IN  insertRow(rest, dest, item)

\* DragDropTableWidget.dropEvent, a row dragged: the rows after the move
MoveRow(table, from_row, to_row) ==
    LET item == table[from_row + 1]
        rest == removeRow(table, from_row)
        dest == IF from_row < to_row THEN to_row - 1 ELSE to_row
    IN  insertRow(rest, dest, item)

\* DragDropTableWidget.dropEvent with event.source() == self: the selected row
\* is dropped on the row rowAt, -1 when it is dropped below the last row
dropEvent_reorder(selected, rowAt, outcome) ==
    /\ alive
    /\ selected \in 0..(Len(batch_table) - 1)
    /\ rowAt \in -1..(Len(batch_table) - 1)
    /\ LET from_row == selected
           to_row   == IF rowAt = -1 THEN Len(batch_table) ELSE rowAt
           seen     == [Op("Reorder") EXCEPT !.from_row = from_row, !.to_row = to_row]
       IN  IF IsNoopMove(from_row, to_row)
           THEN /\ outcome = "ok"
                /\ ReturnUnchanged("Reorder", seen)
           ELSE SaveAndReturn("Reorder", MoveRow(batch_table, from_row, to_row), outcome, seen)

RECURSIVE DropLoop(_, _, _)
\* DragDropTableWidget.dropEvent with urls: the loop over the urls.  acc is
\* [table, file, saves, outcome, saved]; outs[k] is how the k-th save ends.
DropLoop(urls, outs, acc) ==
    IF urls = <<>> \/ acc.outcome = "crash" THEN acc
    ELSE LET file_path == Head(urls) IN
         IF is_valid_file(file_path, disk)
         THEN IF IsDuplicate(acc.table, file_path)
              THEN acc
              ELSE LET t == insertRow(acc.table, Len(acc.table), Row(file_path, "Stopped"))
                       o == outs[acc.saves + 1]
                   IN  DropLoop(Tail(urls), outs,
                                [table |-> t,
                                 file |-> save_batch_list(t, acc.file, o),
                                 saves |-> acc.saves + 1,
                                 outcome |-> o,
                                 saved |-> PathsOf(t)])
         ELSE DropLoop(Tail(urls), outs, acc)

\* the state of the loop of the file drop when it begins
DropBegin ==
    [table |-> batch_table, file |-> batch_list_file, saves |-> 0,
     outcome |-> "none", saved |-> <<>>]

\* the number of saves a drop of urls makes when no save ends the process
SavesOf(urls) ==
    DropLoop(urls, [k \in 1..Len(urls) |-> "ok"], DropBegin).saves

\* DragDropTableWidget.dropEvent with event.source() another program
dropEvent_files(urls, outs) ==
    /\ alive
    /\ LET r == DropLoop(urls, outs, DropBegin)
       IN  /\ Len(r.table) <= MaxRows
           /\ batch_list_file' = r.file
           /\ last' = [Op("DropFiles") EXCEPT
                          !.wrote = r.saves > 0, !.outcome = r.outcome,
                          !.saved = IF r.outcome = "crash" THEN r.saved ELSE <<>>,
                          !.before = IF r.outcome = "crash" THEN batch_list_file
                                     ELSE MissingFile]
           /\ IF r.outcome = "crash"
              THEN Ended
              ELSE /\ batch_table' = r.table
                   /\ UNCHANGED <<alive, processes, launched, current_theme, process_table>>
    /\ UNCHANGED <<disk, config_file, registry, scheduler>>

(***************************************************************************)
(* Import of a settings bundle.                                            *)
(***************************************************************************)
RECURSIVE ImportRowsUntilInvalid(_, _, _, _)
\* the loop of import_settings, were it to end at the first item that is not
\* valid
ImportRowsUntilInvalid(items, table, onDisk, fdOpen) ==
    IF items = <<>> THEN [table |-> table, error |-> FALSE]
    ELSE LET valid == is_valid_item(Head(items), onDisk, fdOpen)
         IN  IF valid = "raises" THEN [table |-> table, error |-> TRUE]
             ELSE IF valid = "invalid" THEN [table |-> table, error |-> FALSE]
             ELSE ImportRowsUntilInvalid(Tail(items),
                                         insertRow(table, Len(table),
                                                   Row(Head(items), "Stopped")),
                                         onDisk, fdOpen)

RECURSIVE ImportRows(_, _, _, _)
\* the loop of import_settings over the bundle's batch_list: the table it
\* leaves and whether it raised
ImportRows(items, table, onDisk, fdOpen) ==
    IF items = <<>> THEN [table |-> table, error |-> FALSE]
    ELSE LET valid == is_valid_item(Head(items), onDisk, fdOpen)
         IN  IF valid = "raises" THEN [table |-> table, error |-> TRUE]
             ELSE ImportRows(Tail(items),
                             IF valid = "valid"
                               THEN insertRow(table, Len(table), Row(Head(items), "Stopped"))
                               ELSE table,
                             onDisk, fdOpen)

\* the values of a bundle's theme; "absent" is a bundle without the key
BundleThemes == {"light", "dark", "blue", "Dark", "absent"}

\* settings.get("theme", "light")
ThemeOf(bundle) == IF bundle.theme = "absent" THEN "light" ELSE bundle.theme

\* the test of the theme, were every value taken
IsThemeAlways(theme) == TRUE

\* theme in ["light", "dark"]
IsTheme(theme) == theme \in {"light", "dark"}

\* a bundle is [shape, batch_list, theme].  shape says what the chosen file
\* is: "object", a JSON object with the two keys; "array", a JSON array, which
\* has no method get; "malformed", a text json.load rejects; "unreadable", a
\* file open() cannot read.
Bundle(shape, batch_list, theme) ==
    [shape |-> shape, batch_list |-> batch_list, theme |-> theme]

\* import_settings fails: what it leaves in the table
ImportFails(seen, table) ==
    /\ batch_table' = table
    /\ last' = [seen EXCEPT !.error = TRUE]
    /\ UNCHANGED <<alive, disk, processes, batch_list_file, current_theme,
                   config_file, launched, registry, scheduler, process_table>>

\* AutostartManager.import_settings, a file having been chosen
import_settings(bundle, outcome, themeOutcome, fdOpen) ==
    /\ alive
    /\ LET r        == ImportRows(bundle.batch_list, <<>>, disk, fdOpen)
           newTable == r.table
           theme    == ThemeOf(bundle)
           seen     == [Op("Import") EXCEPT !.arg = bundle]
       IN  IF bundle.shape \in {"unreadable", "malformed"}
           THEN /\ outcome = "ok" /\ themeOutcome = "ok"
                /\ ImportFails(seen, batch_table)
           ELSE IF bundle.shape = "array"
           THEN /\ outcome = "ok" /\ themeOutcome = "ok"
                /\ ImportFails(seen, <<>>)
           ELSE IF r.error
           THEN /\ outcome = "ok" /\ themeOutcome = "ok"
                /\ ImportFails(seen, newTable)
           ELSE
           /\ batch_list_file' = save_batch_list(newTable, batch_list_file, outcome)
           /\ last' = [seen EXCEPT
                          !.wrote = TRUE, !.outcome = outcome,
                          !.saved = IF outcome = "crash" THEN PathsOf(newTable) ELSE <<>>,
                          !.before = IF outcome = "crash" THEN batch_list_file
                                     ELSE MissingFile]
           /\ IF outcome = "crash"
              THEN /\ themeOutcome = "ok"
                   /\ Ended
                   /\ UNCHANGED config_file
              ELSE /\ IF IsTheme(theme)
                      THEN /\ config_file' = save_theme(theme, config_file, themeOutcome)
                           /\ IF themeOutcome = "crash"
                              THEN Ended
                              ELSE /\ batch_table' = newTable
                                   /\ current_theme' = theme
                                   /\ UNCHANGED <<alive, processes, launched,
                                                  process_table>>
                      ELSE /\ themeOutcome = "ok"
                           /\ batch_table' = newTable
                           /\ UNCHANGED <<alive, processes, launched,
                                          current_theme, config_file, process_table>>
           /\ UNCHANGED <<disk, registry, scheduler>>

(***************************************************************************)
(* The process manager.                                                    *)
(***************************************************************************)
\* the body of the loop of start_all_batch for one row.  acc is
\* [table, procs, attempts, stopped]; raised says that Popen raised.
StartRow(acc, row, raised) ==
    LET file_path == acc.table[row + 1].path
        tried == [acc EXCEPT !.attempts = Append(@, file_path)]
    IN  IF raised
        THEN [tried EXCEPT !.table[row + 1].status = "Stopped"]
        ELSE [tried EXCEPT !.table[row + 1].status = "Running",
                           !.procs = (file_path :> basename(file_path)) @@ @]

RECURSIVE StartLoopAbort(_, _, _)
\* the loop of start_all_batch, were the try around the whole loop: the first
\* Popen that raises ends it
StartLoopAbort(acc, row, raises) ==
    IF row >= Len(acc.table) THEN acc
    ELSE IF row \in raises THEN StartRow(acc, row, TRUE)
    ELSE StartLoopAbort(StartRow(acc, row, FALSE), row + 1, raises)

RECURSIVE StartLoop(_, _, _)
\* the loop of start_all_batch from row on
StartLoop(acc, row, raises) ==
    IF row >= Len(acc.table) THEN acc
    ELSE StartLoop(StartRow(acc, row, row \in raises), row + 1, raises)

\* AutostartManager.start_all_batch.  subprocess.Popen(file_path, shell=True)
\* starts the command interpreter and hands it the path: it raises when the
\* interpreter cannot be started, whether or not the path exists, and for the
\* rows of raises it does.
start_all_batch(raises) ==
    /\ alive
    /\ raises \subseteq 0..(Len(batch_table) - 1)
    /\ LET r == StartLoop([table |-> batch_table, procs |-> NoProcesses, attempts |-> <<>>],
                          0, raises)
       IN  /\ batch_table' = r.table
           /\ processes' = r.procs
           /\ launched' = launched \cup DOMAIN r.procs
           /\ last' = [Op("StartAll") EXCEPT
                          !.attempts = r.attempts, !.failed = raises,
                          !.absent = {row \in 0..(Len(batch_table) - 1) :
                                         batch_table[row + 1].path \notin disk}]
    /\ UNCHANGED <<alive, disk, batch_list_file, current_theme, config_file,
                   registry, scheduler, process_table>>

\* how taskkill may end for one process
KillOutcomes == {"ok", "nonzero", "raises"}

\* the body of the loop, were the entry deleted in the try only
StopOneKeepOnRaise(procs, file_path, outcome) ==
    IF outcome = "raises" THEN procs
    ELSE [p \in DOMAIN procs \ {file_path} |-> procs[p]]

\* the body of the loop of stop_all_batch for one tracked path: both branches
\* of the try delete the entry
StopOne(procs, file_path, outcome) ==
    [p \in DOMAIN procs \ {file_path} |-> procs[p]]

RECURSIVE StopLoop(_, _, _)
\* the loop of stop_all_batch over list(self.processes.items()).  acc is
\* [procs, requests]
StopLoop(acc, todo, outcomes) ==
    IF todo = {} THEN acc
    ELSE LET file_path == CHOOSE p \in todo : TRUE
         IN  StopLoop([procs |-> StopOne(acc.procs, file_path, outcomes[file_path]),
                       requests |-> acc.requests \cup {file_path}],
                      todo \ {file_path}, outcomes)

\* the rows of stop_all_batch after its last loop
AllStopped(table) == [k \in 1..Len(table) |-> Row(table[k].path, "Stopped")]

\* AutostartManager.stop_all_batch
stop_all_batch(outcomes) ==
    /\ alive
    /\ LET r == StopLoop([procs |-> processes, requests |-> {}], DOMAIN processes, outcomes)
       IN  /\ processes' = r.procs
           /\ launched' = launched \ r.requests
           /\ batch_table' = AllStopped(batch_table)
           /\ last' = [Op("StopAll") EXCEPT
                          !.tracked = DOMAIN processes,
                          !.requests = r.requests,
                          !.kills = {outcomes[p] : p \in DOMAIN processes}]
    /\ UNCHANGED <<alive, disk, batch_list_file, current_theme, config_file,
                   registry, scheduler, process_table>>

(***************************************************************************)
(* The autostart registrar.                                                *)
(***************************************************************************)
\* the characters of the class [a-zA-Z0-9_-]
NameChars ==
    {"a", "b", "c", "d", "e", "f", "g", "h", "i", "j", "k", "l", "m", "n", "o",
     "p", "q", "r", "s", "t", "u", "v", "w", "x", "y", "z",
     "A", "B", "C", "D", "E", "F", "G", "H", "I", "J", "K", "L", "M", "N", "O",
     "P", "Q", "R", "S", "T", "U", "V", "W", "X", "Y", "Z",
     "0", "1", "2", "3", "4", "5", "6", "7", "8", "9", "_", "-"}

\* re.match(r'^[a-zA-Z0-9_-]+$', s): $ matches at the end of the string and
\* also just before a newline that ends the string
MatchesNameRule(s) ==
    LET body == IF s # <<>> /\ s[Len(s)] = "\n" THEN SubSeq(s, 1, Len(s) - 1) ELSE s
    IN  /\ body # <<>>
        /\ \A k \in 1..Len(body) : body[k] \in NameChars

\* AutostartManager.validate_app_name: the name is accepted
validate_app_name(app_name) ==
    /\ app_name # <<>>
    /\ MatchesNameRule(app_name)

\* winreg.SetValueEx: the value is created or overwritten
SetValueEx(reg, name, command) == (name :> command) @@ reg

\* winreg.DeleteValue of a value the key holds, and schtasks /Delete
DeleteValue(reg, name) == [n \in DOMAIN reg \ {name} |-> reg[n]]

\* AutostartManager.add_to_registry: the Run key it leaves
add_to_registry(reg, file_path, app_name) ==
    SetValueEx(reg, app_name, quoted(file_path))

\* AutostartManager.add_to_task_scheduler: the tasks it leaves when schtasks
\* /Create ends with exit code 0
add_to_task_scheduler(sched, file_path, task_name) ==
    (task_name :> quoted(file_path)) @@ sched

\* open(temp_xml, "w") succeeds: the name of the task is a file name
IsFileName(task_name) == \A k \in 1..Len(task_name) : task_name[k] # "\n"

\* how a call of a store may end
StoreOutcomes == {"ok", "raises"}

\* what an autostart handler leaves unchanged
BatchUnchanged ==
    UNCHANGED <<alive, disk, batch_table, processes, batch_list_file,
                current_theme, config_file, launched>>

\* an autostart handler returns: the stores it leaves, what was seen, and
\* whether it has called load_autostart_processes
AutostartReturn(seen, reg, sched, reload) ==
    /\ registry' = reg
    /\ scheduler' = sched
    /\ process_table' = IF reload THEN load_autostart_processes(reg, sched)
                        ELSE process_table
    /\ last' = seen
    /\ BatchUnchanged

\* AutostartManager.add_to_autostart.  token is the value of uuid4, a value
\* no task carries yet.
add_to_autostart(file_path, app_name, run_as_admin, token, outcome) ==
    /\ alive
    /\ LET seen   == [Op("Add") EXCEPT
                         !.arg = [file_path |-> file_path, app_name |-> app_name,
                                  run_as_admin |-> run_as_admin]]
           failed == [seen EXCEPT !.error = TRUE]
           task_name == TaskName(app_name, token)
       IN  IF file_path = <<>> \/ ~validate_app_name(app_name) \/ file_path \notin disk
           THEN /\ outcome = "ok"
                /\ AutostartReturn(failed, registry, scheduler, FALSE)
           ELSE IF run_as_admin
           THEN /\ task_name \notin DOMAIN scheduler
                /\ IF outcome = "raises" \/ ~IsFileName(task_name)
                   THEN AutostartReturn(failed, registry, scheduler, FALSE)
                   ELSE AutostartReturn(seen, registry,
                                        add_to_task_scheduler(scheduler, file_path, task_name),
                                        TRUE)
           ELSE IF outcome = "raises"
                THEN AutostartReturn(failed, registry, scheduler, FALSE)
                ELSE AutostartReturn(seen, add_to_registry(registry, file_path, app_name),
                                     scheduler, TRUE)

\* AutostartManager.remove_process, called by the Remove button of a row of
\* the process table; reply is the answer to the question
remove_process(source, name, reply) ==
    /\ alive
    /\ \E row \in process_table : row.source = source /\ row.name = name
    /\ LET seen == [Op("Remove") EXCEPT
                       !.arg = [source |-> source, name |-> name, reply |-> reply]]
       IN  IF reply # "Yes"
           THEN AutostartReturn(seen, registry, scheduler, FALSE)
           ELSE IF source = "Registry"
           THEN IF name \in DOMAIN registry
                THEN AutostartReturn(seen, DeleteValue(registry, name), scheduler, TRUE)
                ELSE AutostartReturn([seen EXCEPT !.error = TRUE], registry, scheduler,
                                     FALSE)
           ELSE AutostartReturn(seen, registry, DeleteValue(scheduler, name), TRUE)

\* the Run key after a confirmed toggle, were the entry written in both cases
toggledAlwaysSet(reg) == SetValueEx(reg, SelfName, quoted(current_exe))

\* the Run key after a confirmed toggle_self_autostart
toggled(reg) ==
    IF SelfName \in DOMAIN reg THEN DeleteValue(reg, SelfName)
    ELSE SetValueEx(reg, SelfName, quoted(current_exe))

\* whether the application's own entry is in the Run key
SelfPresent(reg) == SelfName \in DOMAIN reg

\* AutostartManager.toggle_self_autostart; reply is the answer to the question,
\* outcome how the opening of the key for writing ends
toggle_self_autostart(reply, outcome) ==
    /\ alive
    /\ LET after == IF last.op = "Toggle" /\ last.arg.reply = "Yes" /\ ~last.error
                    THEN <<last.arg.before>> ELSE <<>>
           seen == [Op("Toggle") EXCEPT
                       !.arg = [reply |-> reply, before |-> SelfPresent(registry),
                                after |-> after]]
       IN  IF reply # "Yes"
           THEN /\ outcome = "ok"
                /\ AutostartReturn(seen, registry, scheduler, TRUE)
           ELSE IF outcome = "raises"
           THEN AutostartReturn([seen EXCEPT !.error = TRUE], registry, scheduler, FALSE)
           ELSE AutostartReturn(seen, toggled(registry), scheduler, TRUE)

\* the Refresh button: load_autostart_processes
refresh ==
    /\ alive
    /\ AutostartReturn(Op("Refresh"), registry, scheduler, TRUE)

\* another program, or the user in the registry editor, deletes a value of
\* the Run key
OtherProgram ==
    /\ \E n \in DOMAIN registry : registry' = DeleteValue(registry, n)
    /\ last' = Op("OtherProgram")
    /\ UNCHANGED <<scheduler, process_table>>
    /\ BatchUnchanged

(***************************************************************************)
(* The specifications.                                                     *)
(***************************************************************************)
SeqsUpTo(S, n) == UNION {[1..k -> S] : k \in 0..n}

\* the lists of one or two paths
OneOrTwo(S) == {<<p>> : p \in S} \cup {<<p, q>> : p, q \in S}

\* the urls of a file drop
DroppedUrls == OneOrTwo(Paths)

\* the settings bundles: a batch_list of at most two paths, and a theme
Bundles(themes) ==
    [shape : {"object"}, batch_list : {<<>>} \cup OneOrTwo(Paths), theme : themes]

\* the ways save_theme may end in an import of bundle whose save_batch_list
\* ended as outcome, the writes of the session ending as one of writes
ThemeOutcomesIn(writes, bundle, outcome) ==
    IF outcome # "crash" /\ IsTheme(ThemeOf(bundle))
    THEN writes ELSE {"ok"}

\* whether the descriptor a number of the bundle names is open: it matters
\* only to a bundle that holds a number
FdOpenIn(bundle) ==
    IF \E k \in 1..Len(bundle.batch_list) : bundle.batch_list[k] = json_number
    THEN BOOLEAN ELSE {FALSE}

\* Import of one of bundles, the writes of the two files ending as one of
\* writes
Imports(bundles, writes) ==
    \E b \in bundles, o \in writes :
       \E t \in ThemeOutcomesIn(writes, b, o), fdOpen \in FdOpenIn(b) :
          import_settings(b, o, t, fdOpen)

\* the sessions: the application is closed, started again, and the files of
\* the disk come and go
Session ==
    \/ Start
    \/ Exit
    \/ DiskChange

\* the batch-list handlers, handed bundles with the given themes, the writes of
\* the two files ending as one of writes
Mutations(themes, writes) ==
    \/ \E p \in DialogPaths, o \in writes : add_batch_file(p, o)
    \/ \E row \in -1..(Len(batch_table) - 1), o \in writes :
          remove_batch_file(row, o)
    \/ \E o \in writes : remove_all_batch_files(o)
    \/ \E i \in 0..(Len(batch_table) - 1), j \in -1..(Len(batch_table) - 1),
          o \in writes : dropEvent_reorder(i, j, o)
    \/ \E urls \in DroppedUrls : \E outs \in [1..SavesOf(urls) -> writes] :
          dropEvent_files(urls, outs)
    \/ Imports(Bundles(themes), writes)

\* the handlers of the process manager
Launches ==
    \/ \E raises \in SUBSET (0..(Len(batch_table) - 1)) : start_all_batch(raises)
    \/ \E outcomes \in [DOMAIN processes -> KillOutcomes] : stop_all_batch(outcomes)

\* the batch list and its file, every write ending in any way; no process is
\* started.  The bundles imported carry a theme that import_settings does not
\* apply.
Next == Session \/ Mutations({"blue"}, WriteOutcomes)

Spec == Init /\ [][Next]_vars

\* the batch list and the process manager over a store whose writes succeed
NextProc == Session \/ Mutations({"blue"}, {"ok"}) \/ Launches

SpecProc == Init /\ [][NextProc]_vars

\* the batch list over a file that other programs write as well
NextLoad == Session \/ FileEdited \/ Mutations({"blue"}, {"ok"})

SpecLoad == Init /\ [][NextLoad]_vars

\* the lists of the bundles of SpecImport
ImportLists ==
    {<<>>, <<n_txt>>, <<a_exe, n_txt>>, <<q_cmd, a_exe>>, <<B_BAT, a_exe>>,
     <<a_exe, a_exe>>}

\* the bundles of SpecImport: the objects with one of these lists and any
\* theme, and the files that make the import fail
ImportBundles ==
    [shape : {"object"}, batch_list : ImportLists, theme : BundleThemes]
    \cup {Bundle("unreadable", <<>>, "absent"), Bundle("malformed", <<>>, "absent"),
          Bundle("array", <<>>, "absent"),
          Bundle("object", <<a_exe, json_null>>, "dark"),
          Bundle("object", <<B_BAT, json_number>>, "dark")}

\* imports of every bundle, a write ending well or open() raising
NextImport == Session \/ Imports(ImportBundles, {"ok", "open_fails"})

SpecImport == Init /\ [][NextImport]_vars

\* the batch list, its file and the process manager together
NextAll == Session \/ Mutations({"blue"}, WriteOutcomes) \/ Launches

SpecAll == Init /\ [][NextAll]_vars

\* the tables a drag-reorder is applied to: the user has added distinct files
\* and no process has been started
DistinctLists(S, n) ==
    {s \in SeqsUpTo(S, n) : \A k, m \in 1..Len(s) : s[k] = s[m] => k = m}

InitReorder ==
    /\ alive = TRUE
    /\ disk = AllPaths
    /\ \E s \in DistinctLists(ReorderPaths, MaxReorderRows) :
          /\ batch_table = [k \in 1..Len(s) |-> Row(s[k], "Stopped")]
          /\ batch_list_file = ArrayFile(s)
    /\ processes = NoProcesses
    /\ current_theme = "light"
    /\ config_file = "missing"
    /\ launched = {}
    /\ registry = NoEntries
    /\ scheduler = NoEntries
    /\ process_table = {}
    /\ last = Op("init")

NextReorder ==
    \/ Start
    \/ \E i \in 0..(Len(batch_table) - 1), j \in -1..(Len(batch_table) - 1),
          o \in WriteOutcomes : dropEvent_reorder(i, j, o)

SpecReorder == InitReorder /\ [][NextReorder]_vars

\* the names the name field may hold
app == <<"a", "p", "p">>
app_nl == <<"a", "p", "p", "\n">>
my_app == <<"m", "y", " ", "a", "p", "p">>
AppNames == {<<>>, app, app_nl, my_app, SelfName}

\* a path that names no file
z_exe == <<"z", ".", "e", "x", "e">>

\* the paths the path field may hold
AutostartPaths == {<<>>, a_exe, n_txt, z_exe}

\* the first eight digits of a uuid4
Tokens == {<<"1", "a", "2", "b", "3", "c", "4", "d">>}

\* Add, the fields holding one of paths and one of names
AddEntry(paths, names) ==
    \E file_path \in paths, app_name \in names, run_as_admin \in BOOLEAN,
       token \in Tokens, o \in StoreOutcomes :
       add_to_autostart(file_path, app_name, run_as_admin, token, o)

\* the Remove button of a row of the process table
Removal ==
    \E row \in process_table, reply \in {"Yes", "No"} :
       remove_process(row.source, row.name, reply)

\* the button of the application's own entry
Toggle ==
    \E reply \in {"Yes", "No"}, o \in StoreOutcomes : toggle_self_autostart(reply, o)

\* Add with every path and every name, within one session
NextAdd == AddEntry(AutostartPaths, AppNames) \/ Removal \/ refresh

SpecAdd == Init /\ [][NextAdd]_vars

\* the autostart tab over a Run key that other programs write as well
NextAuto ==
    \/ Start
    \/ Exit
    \/ AddEntry({a_exe}, {app, SelfName})
    \/ Removal
    \/ Toggle
    \/ refresh
    \/ OtherProgram

SpecAuto == Init /\ [][NextAuto]_vars

(***************************************************************************)
(* Properties.                                                             *)
(***************************************************************************)
NoDuplicates(s) == \A k, m \in 1..Len(s) : s[k] = s[m] => k = m

\* the list of paths the file holds; a missing file holds none
FileItems == batch_list_file.items

StatusOf(row) == batch_table[row + 1].status

Rows == 0..(Len(batch_table) - 1)

\* C1: a path is a key of self.processes if and only if a launch of it
\* succeeded and no stop_all_batch has been processed for it since.
C1_TrackedIffLaunched == alive => DOMAIN processes = launched

\* C2: start_all_batch over a list of one launchable path and one path that
\* is not on disk marks the first Running and the second Stopped, and leaves
\* exactly one entry in self.processes.
C2_MissingPathNotTracked ==
    (/\ alive
     /\ last.op = "StartAll"
     /\ Len(batch_table) = 2
     /\ last.absent = {1}
     /\ 0 \notin last.failed)
    => /\ StatusOf(0) = "Running"
       /\ StatusOf(1) = "Stopped"
       /\ Cardinality(DOMAIN processes) = 1

\* C3: start_all_batch hands every row's path to Popen exactly once, in list
\* order, whichever rows fail, and sets each row's status to Stopped when its
\* launch failed and to Running when it succeeded.
C3_StartAllBestEffort ==
    (alive /\ last.op = "StartAll")
    => /\ last.attempts = PathsOf(batch_table)
       /\ \A row \in Rows :
             StatusOf(row) = IF row \in last.failed THEN "Stopped" ELSE "Running"

\* a start_all_batch of two rows whose first launch failed
C3_Witness ==
    /\ alive
    /\ last.op = "StartAll"
    /\ Len(batch_table) = 2
    /\ last.failed = {0}
    /\ StatusOf(1) = "Running"

\* C4: after stop_all_batch the map is empty and every row shows Stopped,
\* however the taskkill runs ended, and taskkill was run for every path that
\* was tracked when it began.
C4_StopAllEmptiesMap ==
    (alive /\ last.op = "StopAll")
    => /\ processes = NoProcesses
       /\ \A row \in Rows : StatusOf(row) = "Stopped"
       /\ last.requests = last.tracked

\* a stop_all_batch of two tracked processes, one taskkill ending with a
\* non-zero exit and one raising
C4_Witness ==
    /\ alive
    /\ last.op = "StopAll"
    /\ Cardinality(last.tracked) = 2
    /\ last.kills = {"nonzero", "raises"}

\* C5: when a handler that has called save_batch_list returns, the file holds
\* the paths of the table, in the table's order, also when the write failed.
C5_FileEqualsTable ==
    (/\ alive
     /\ last.op \in {"AddFile", "DropFiles", "RemoveSelected", "RemoveAll",
                     "Reorder", "Import"}
     /\ last.wrote)
    => FileItems = PathsOf(batch_table) /\ batch_list_file.kind # "truncated"

\* C6: when the process dies in a write of the batch list, the file holds the
\* complete list it held before the handler or the complete list being written.
C6_AtomicSave ==
    (~alive /\ last.outcome = "crash")
    => \/ batch_list_file = last.before
       \/ batch_list_file = ArrayFile(last.saved)

\* C7: the table holds no path twice, and add_batch_file of a path already in
\* the table writes nothing.
C7_PathsUnique ==
    /\ alive => NoDuplicates(PathsOf(batch_table))
    /\ (last.op = "AddFile" /\ last.dup) => ~last.wrote

\* C8: every row of a table without duplicates shows Running exactly when its
\* path is a key of self.processes.
C8_StatusMatchesMap ==
    (alive /\ NoDuplicates(PathsOf(batch_table)))
    => \A row \in Rows :
          StatusOf(row) = "Running" <=> batch_table[row + 1].path \in DOMAIN processes

\* the list of paths a step leaves: the table's, or the list that was being
\* written when the process died
ListAfter == IF last'.outcome = "crash" THEN last'.saved ELSE PathsOf(batch_table')

\* C9: a drag of row i dropped on row i or on row i + 1 changes neither the
\* table nor the file, and writes nothing.
C9_AdjacentDropIsNoop ==
    [][(/\ last'.op = "Reorder"
        /\ last'.to_row \in {last'.from_row, last'.from_row + 1})
       => /\ batch_table' = batch_table
          /\ batch_list_file' = batch_list_file
          /\ ~last'.wrote]_vars

\* row 1 of three rows dropped on row 2
C9_Witness ==
    /\ last.op = "Reorder"
    /\ last.from_row = 1
    /\ last.to_row = 2
    /\ Len(batch_table) = 3

\* s without its element at index k, indices from 0
Without(s, k) == [m \in 1..(Len(s) - 1) |-> IF m <= k THEN s[m] ELSE s[m + 1]]

\* r is l with the element at index i taken out and put back before the element
\* that was at index j, at the end when j = Len(l); indices from 0
IsMoved(l, r, i, j) ==
    /\ Len(r) = Len(l)
    /\ \E k \in 0..(Len(l) - 1) :
          /\ r[k + 1] = l[i + 1]
          /\ Without(r, k) = Without(l, i)
          /\ IF j = Len(l) THEN k = Len(l) - 1
             ELSE k + 2 <= Len(r) /\ r[k + 2] = l[j + 1]

\* C10: a drag of row i dropped on row j, j neither i nor i + 1, takes L[i] out
\* and puts it back before the element that was at j, the other rows keeping
\* their order; that list is the one handed to the file, and the one the file
\* holds when the write ends well.
C10_ReorderMovesRow ==
    [][(/\ last'.op = "Reorder"
        /\ last'.to_row \notin {last'.from_row, last'.from_row + 1})
       => /\ IsMoved(PathsOf(batch_table), ListAfter, last'.from_row, last'.to_row)
          /\ last'.wrote
          /\ last'.outcome = "ok" => batch_list_file' = ArrayFile(ListAfter)]_vars

\* [a.exe, B.BAT] after row 0 was dropped below the last row
C10_Witness ==
    /\ last.op = "Reorder"
    /\ last.from_row = 0
    /\ last.to_row = 2
    /\ PathsOf(batch_table) = <<B_BAT, a_exe>>
    /\ batch_list_file = ArrayFile(<<B_BAT, a_exe>>)
\* C11: a non-empty list of distinct paths written by save_batch_list and read
\* back by load_batch_list in the next session is the same list: the table of
\* the new session holds the paths of the file, in the file's order.
C11_RoundTrip ==
    (/\ alive
     /\ last.op = "Start"
     /\ batch_list_file.kind = "array"
     /\ FileItems # <<>>
     /\ NoDuplicates(FileItems))
    => PathsOf(batch_table) = FileItems
\* the naming rule: one or more characters of [A-Za-z0-9_-]
FollowsNameRule(app_name) ==
    /\ app_name # <<>>
    /\ \A k \in 1..Len(app_name) : app_name[k] \in NameChars

\* the file exists and its name ends in .exe, .bat or .cmd
IsApprovedFile(file_path) ==
    /\ file_path \in disk
    /\ \E ext \in ApprovedExtensions : endswith(lower(file_path), ext)

\* neither store is written by the step
StoresUnchanged == registry' = registry /\ scheduler' = scheduler

\* C12: Add with a name that is empty or holds a character outside
\* [A-Za-z0-9_-] reports an error and leaves the Run key and the scheduled
\* tasks as they were, with and without the administrator box checked; here
\* for the paths of existing files with an approved extension.
C12_BadNameRejected ==
    [][(/\ last'.op = "Add"
        /\ ~FollowsNameRule(last'.arg.app_name)
        /\ IsApprovedFile(last'.arg.file_path))
       => last'.error /\ StoresUnchanged]_vars

\* C13: Add with a path that does not exist or does not end in .exe, .bat or
\* .cmd reports an error and writes neither the Run key nor a scheduled task;
\* here for the names that follow the naming rule.
C13_BadFileRejected ==
    [][(/\ last'.op = "Add"
        /\ ~IsApprovedFile(last'.arg.file_path)
        /\ FollowsNameRule(last'.arg.app_name))
       => last'.error /\ StoresUnchanged]_vars

\* C14: after an Add that succeeded, the process table holds a row of the
\* chosen store for the name: for the Run key the name itself with the quoted
\* path, for the scheduler a task whose name holds the name and whose command
\* holds the path; here for the names that follow the naming rule and the
\* paths of existing files with an approved extension.
C14_AddedEntryListed ==
    (/\ alive
     /\ last.op = "Add"
     /\ ~last.error
     /\ FollowsNameRule(last.arg.app_name)
     /\ IsApprovedFile(last.arg.file_path))
    => \E row \in process_table :
          IF last.arg.run_as_admin
          THEN /\ row.source = "Scheduler"
               /\ contains(row.name, last.arg.app_name)
               /\ contains(row.path, last.arg.file_path)
          ELSE /\ row.source = "Registry"
               /\ row.name = last.arg.app_name
               /\ row.path = quoted(last.arg.file_path)

\* the entry a Remove names is in its store
EntryExists(source, name) ==
    IF source = "Registry" THEN name \in DOMAIN registry
    ELSE name \in DOMAIN scheduler

\* C15: a confirmed Remove of an entry that is not in its store reports no
\* error and leaves both stores as they were.
C15_RemoveIdempotent ==
    [][(/\ last'.op = "Remove"
        /\ last'.arg.reply = "Yes"
        /\ ~EntryExists(last'.arg.source, last'.arg.name))
       => ~last'.error /\ StoresUnchanged]_vars

\* the entries of a store other than the application's own
Others(reg) == [n \in DOMAIN reg \ {SelfName} |-> reg[n]]

\* C19: a confirmed toggle that reports no error flips the presence of
\* AutostartManager in the Run key, a new entry holding the quoted path of the
\* running application; the second of two such toggles in a row restores the
\* presence found by the first; and no toggle changes a scheduled task or
\* another value of the Run key.
C19_ToggleFlipsSelfEntry ==
    [][last'.op = "Toggle"
       => /\ scheduler' = scheduler
          /\ Others(registry') = Others(registry)
          /\ (last'.arg.reply = "Yes" /\ ~last'.error)
             => /\ SelfPresent(registry') = ~SelfPresent(registry)
                /\ SelfPresent(registry') => registry'[SelfName] = quoted(current_exe)
                /\ last'.arg.after # <<>> => SelfPresent(registry') = last'.arg.after[1]]_vars

\* the second of two confirmed toggles in a row, the first having removed the
\* entry, the Run key holding another value and the scheduler a task
C19_Witness ==
    /\ last.op = "Toggle"
    /\ last.arg.reply = "Yes"
    /\ ~last.error
    /\ last.arg.after = <<TRUE>>
    /\ SelfPresent(registry)
    /\ app \in DOMAIN registry
    /\ scheduler # NoEntries
\* the file holds something else than a JSON array of strings
IsMalformed(file) ==
    \/ file.kind \in {"truncated", "scalar", "object", "string"}
    \/ /\ file.kind = "array"
       /\ \E k \in 1..Len(file.items) : file.items[k] \in {json_null, json_number}

\* C20: load_batch_list of a missing file leaves the table empty and reports
\* no error; load_batch_list of a file that holds invalid JSON, a value that
\* is not an array, or an array with an item that is not a string reports an
\* error and leaves the table empty.
C20_LoadMalformed ==
    (alive /\ last.op = "Start")
    => /\ batch_list_file.kind = "missing" => batch_table = <<>> /\ ~last.error
       /\ IsMalformed(batch_list_file) => batch_table = <<>> /\ last.error
\* the step is an import of a JSON object whose batch_list holds strings only,
\* and the process has not died in a write
IsImportStep ==
    /\ last'.op = "Import"
    /\ disk' = disk
    /\ alive'
    /\ last'.arg.shape = "object"
    /\ \A k \in 1..Len(last'.arg.batch_list) :
          last'.arg.batch_list[k] \notin {json_null, json_number}

\* the paths of the bundle that exist and end in .exe, .bat or .cmd
ApprovedOf(bundle) == SelectSeq(bundle.batch_list, LAMBDA p : IsApprovedFile(p))

\* the paths of the bundle that exist, end in .exe, .bat or .cmd and hold none
\* of the characters < > | &
ValidOf(bundle) ==
    SelectSeq(bundle.batch_list,
              LAMBDA p : /\ IsApprovedFile(p)
                         /\ \A k \in 1..Len(p) : p[k] \notin ForbiddenChars)

\* what an import of the bundle does with the list kept of it: the table holds
\* it, no error is reported, save_batch_list is called and the file holds it
\* when the write ends well, and a bundle's theme light or dark is the theme
ImportKeeps(kept, bundle) ==
    /\ PathsOf(batch_table') = kept
    /\ ~last'.error
    /\ last'.wrote
    /\ last'.outcome = "ok" => batch_list_file' = ArrayFile(kept)
    /\ bundle.theme \in {"light", "dark"} => current_theme' = bundle.theme

\* C16 as stated: an import replaces the batch list with the paths of the
\* bundle that exist and end in .exe, .bat or .cmd, in the bundle's order,
\* reports no error and saves that list.
C16_ImportKeepsApproved ==
    [][IsImportStep => ImportKeeps(ApprovedOf(last'.arg), last'.arg)]_vars

\* C16, amended: an import replaces the batch list with the paths of the
\* bundle that exist, end in .exe, .bat or .cmd and hold none of the
\* characters < > | &, in the bundle's order, reports no error and saves that
\* list; the file holds it when the write ends well.
C16_ImportKeepsValid ==
    [][IsImportStep => ImportKeeps(ValidOf(last'.arg), last'.arg)]_vars

\* the bundle [q&.cmd, a.exe] with theme dark imported over another list: the
\* list and the file hold a.exe and the theme is dark
C16_Witness ==
    /\ alive
    /\ last.op = "Import"
    /\ last.arg = Bundle("object", <<q_cmd, a_exe>>, "dark")
    /\ PathsOf(batch_table) = <<a_exe>>
    /\ batch_list_file = ArrayFile(<<a_exe>>)
    /\ current_theme = "dark"

\* C17: an import of a bundle whose theme is neither light nor dark reports no
\* error and leaves current_theme and config.json as they were.
C17_UnknownThemeKept ==
    [][(IsImportStep /\ last'.arg.theme \notin {"light", "dark", "absent"})
       => /\ ~last'.error
          /\ current_theme' = current_theme
          /\ config_file' = config_file]_vars

\* a bundle with the theme blue imported while the theme is dark
C17_Witness ==
    /\ alive
    /\ last.op = "Import"
    /\ last.arg.theme = "blue"
    /\ ~last.error
    /\ current_theme = "dark"
    /\ config_file = "dark"

\* C18: an import that reports an error leaves the table, batch_list.json,
\* current_theme and config.json as they were.
C18_FailedImportChangesNothing ==
    [][(last'.op = "Import" /\ disk' = disk /\ last'.error)
       => /\ batch_table' = batch_table
          /\ batch_list_file' = batch_list_file
          /\ current_theme' = current_theme
          /\ config_file' = config_file]_vars
\* C21: every path launched by a start_all_batch of the session and not handed
\* to taskkill since is a key of self.processes, so that the next
\* stop_all_batch runs taskkill for it; here for the start_all_batch whose
\* launches all succeed: it leaves every such path tracked when every such
\* path was tracked before it.
C21_LaunchedStaysTracked ==
    [][(/\ last'.op = "StartAll"
        /\ last'.failed = {}
        /\ launched \subseteq DOMAIN processes)
       => launched' \subseteq DOMAIN processes']_vars
\* the paths a file holds
PathsIn(file) == {file.items[k] : k \in 1..Len(file.items)}

\* C22: a step that is neither a removal nor an import, the file holding a
\* complete list before and after it, leaves in the file every path the file
\* held.
C22_PathLeavesByRemovalOnly ==
    [][(/\ last'.op \notin {"RemoveSelected", "RemoveAll", "Import"}
        /\ batch_list_file.kind = "array"
        /\ batch_list_file'.kind = "array")
       => PathsIn(batch_list_file) \subseteq PathsIn(batch_list_file')]_vars
=============================================================================
